---------------------------- MODULE Spec2Model ----------------------------
(***************************************************************************)
(* The tool-dispatch and update-delivery gateway of telegram-service:      *)
(* TelegramMCPServer (apps/telegram_mcp_server.py) on top of               *)
(* TelegramClient (src/telegram_service/telegram_client.py).               *)
(*                                                                         *)
(* A tool call is a coroutine.  It runs without interruption up to the     *)
(* await of a transport operation (bot.send_message, bot.get_updates ...), *)
(* where it is suspended until the transport returns or raises.  Each      *)
(* handler is therefore one action up to its await and one action from     *)
(* the transport's answer to the handler's return.                         *)
(***************************************************************************)
EXTENDS Integers, Sequences, FiniteSets, TLC

\* ------------------------------------------------------------- bounds
MaxCalls == 2
MaxId == 2
NegIds == 1
MaxBatch == 2

\* ------------------------------------------------------------- values
\* Python None, and a key that is missing from the arguments dict
\* (arguments.get(key) gives None for it).
Absent == "<absent>"

\* Optional[int]
NoInt == [some |-> FALSE, v |-> 0]

SomeInt(i) == [some |-> TRUE, v |-> i]

\* Python truthiness of an Optional[int]: None and 0 are falsy.
TruthyInt(o) == o.some /\ o.v # 0

\* Python truthiness of an Optional[str] (the model has no empty strings).
TruthyStr(s) == s # Absent

Slots == 1..MaxCalls

\* update identifiers the transport may hand out
IdRange == (0 - NegIds)..MaxId

ToolNames ==
    {"telegram_send_message", "telegram_send_photo", "telegram_send_document",
     "telegram_get_updates", "telegram_get_bot_info", "telegram_get_chat_info",
     "telegram_set_webhook", "telegram_delete_webhook",
     "telegram_get_webhook_info"}

\* a name call_tool does not know
OtherName == "telegram_ping"

\* the chat identifiers of the model: one a caller passes, one from the
\* environment (TELEGRAM_CHAT_ID)
CallerChat == "chat-A"

EnvChat == "chat-env"

\* ------------------------------------------------------------- arguments
NoArgs ==
    [text |-> Absent, chat_id |-> Absent, parse_mode |-> Absent,
     photo_url |-> Absent, caption |-> Absent, document_url |-> Absent,
     url |-> Absent, limit |-> NoInt]

OptChat == {Absent, CallerChat}

ParseModes == {Absent, "html", "bogus"}

SendMessageArgs ==
    {[NoArgs EXCEPT !.text = t, !.chat_id = c, !.parse_mode = m] :
        t \in {Absent, "hello"}, c \in OptChat, m \in ParseModes}

SendPhotoArgs ==
    {[NoArgs EXCEPT !.photo_url = u, !.chat_id = c, !.caption = k,
                    !.parse_mode = m] :
        u \in {Absent, "http://p"}, c \in OptChat, k \in {Absent, "cap"},
        m \in {Absent, "bogus"}}

SendDocumentArgs ==
    {[NoArgs EXCEPT !.document_url = u, !.chat_id = c, !.caption = k] :
        u \in {Absent, "http://d"}, c \in OptChat, k \in {Absent, "cap"}}

GetUpdatesArgs ==
    {[NoArgs EXCEPT !.limit = l] : l \in {NoInt, SomeInt(0), SomeInt(101)}}

GetChatInfoArgs == {[NoArgs EXCEPT !.chat_id = c] : c \in OptChat}

SetWebhookArgs == {[NoArgs EXCEPT !.url = u] : u \in {Absent, "https://hook"}}

\* ------------------------------------------------------------- requests
\* One invocation of a transport (aiogram Bot) operation.
NoReq ==
    [op |-> "none", chat_id |-> Absent, parse_mode |-> Absent,
     payload |-> Absent, offset |-> NoInt, limit |-> NoInt]

\* ------------------------------------------------------------- responses
\* The TextContent a handler returns: form "json" is json.dumps of a dict
\* with the given keys, form "text" is a plain sentence.  success is the
\* value of the "success" key ("none" when the dict has no such key), error
\* the value of the "error" key.
NoResp ==
    [form |-> "none", keys |-> {}, success |-> "none", error |-> Absent,
     message |-> Absent, ids |-> <<>>]

ErrorEnvelope(e) ==
    [NoResp EXCEPT !.form = "json", !.keys = {"success", "error"},
                   !.success = "false", !.error = e]

PlainText(m) == [NoResp EXCEPT !.form = "text", !.message = m]

PyBool(b) == IF b THEN "true" ELSE "false"


\* ------------------------------------------------------------- state
VARIABLES
    bot_token,        \* TELEGRAM_BOT_TOKEN is set in the environment
    default_chat_id,  \* TELEGRAM_CHAT_ID, Absent when unset
    client,           \* self.client is not None
    last_update_id,   \* self.last_update_id
    call,             \* per slot: the tool call being served there
    lastFetch,        \* history: the fetch-updates call that returned last
    runState,         \* where TelegramMCPServer.run is
    closeCount,       \* how often TelegramClient.close has run
    sessions          \* how many TelegramClient objects initialize has assigned

vars ==
    <<bot_token, default_chat_id, client, last_update_id, call, lastFetch,
      runState, closeCount, sessions>>

\* pc: "idle" (no call), "await" (suspended at the handler's first transport
\* operation), "await2" (suspended at get_chat_member_count), "done" (the
\* handler has returned resp to the protocol layer).
\* n counts the transport operations the call has invoked; primary and
\* enrich are the outcomes of the first and the second one.
\* peers: the slots whose fetch-updates call was suspended at its pull when
\* this fetch-updates call started.
\* ret: the boolean a transport operation or a notifier operation returned.
Idle ==
    [pc |-> "idle", name |-> "none", args |-> NoArgs, req |-> NoReq, n |-> 0,
     primary |-> "none", enrich |-> "none", resp |-> NoResp, peers |-> {},
     ret |-> "none"]

NoFetch == [res |-> "none", offset |-> NoInt, lastId |-> NoInt]

Init ==
    /\ bot_token \in BOOLEAN
    /\ default_chat_id \in {Absent, EnvChat}
    /\ client = FALSE
    /\ last_update_id = NoInt
    /\ call = [p \in Slots |-> Idle]
    /\ lastFetch = NoFetch
    /\ runState = "serving"
    /\ closeCount = 0
    /\ sessions = 0

\* ------------------------------------------------------------- TelegramClient
\* What a client method does before it awaits the transport: it raises
\* (raised is the exception's message) or it invokes the operation req.
Raises(e) == [raised |-> e, req |-> NoReq]

Invokes(r) == [raised |-> Absent, req |-> r]

\* str.upper() on the parse modes of the model
Upper(s) ==
    CASE s = "Markdown" -> "MARKDOWN"
      [] s = "html" -> "HTML"
      [] s = "HTML" -> "HTML"
      [] s = "bogus" -> "BOGUS"
      [] OTHER -> s

\* mutant: the parse mode string is never converted
ParseModeNeverSet(parse_mode, gate) == Absent

\* "Convert parse_mode string to enum"; gate is TRUE in send_message and
\* bool(caption) in send_photo and send_document.
ParseModeEnum(parse_mode, gate) ==
    IF TruthyStr(parse_mode) /\ gate
    THEN IF Upper(parse_mode) = "MARKDOWN" THEN "ParseMode.MARKDOWN"
         ELSE IF Upper(parse_mode) = "HTML" THEN "ParseMode.HTML"
         ELSE Absent
    ELSE Absent

\* mutant: the default destination is never consulted
TargetChatIdExplicitOnly(chat_id) == chat_id

\* target_chat_id = chat_id or self.default_chat_id
TargetChatId(chat_id) ==
    IF TruthyStr(chat_id) THEN chat_id ELSE default_chat_id

NoChatError == "No chat_id provided and no default chat_id set"

\* arguments.get("parse_mode", "Markdown")
ParseModeArg(a) == IF a.parse_mode = Absent THEN "Markdown" ELSE a.parse_mode

\* TelegramClient.send_message up to await self.bot.send_message.  The debug
\* line formats text[:50] before the try block, which raises TypeError when
\* text is None.
ClientSendMessage(text, chat_id, parse_mode) ==
    LET target == TargetChatId(chat_id) IN
    IF ~TruthyStr(target) THEN Raises(NoChatError)
    ELSE IF text = Absent THEN Raises("'NoneType' object is not subscriptable")
    ELSE Invokes([NoReq EXCEPT !.op = "send_message", !.chat_id = target,
                               !.payload = text,
                               !.parse_mode = ParseModeEnum(parse_mode, TRUE)])

\* TelegramClient.send_photo up to await self.bot.send_photo
ClientSendPhoto(photo, caption, chat_id, parse_mode) ==
    LET target == TargetChatId(chat_id) IN
    IF ~TruthyStr(target) THEN Raises(NoChatError)
    ELSE Invokes([NoReq EXCEPT !.op = "send_photo", !.chat_id = target,
                               !.payload = photo,
                               !.parse_mode =
                                   ParseModeEnum(parse_mode, TruthyStr(caption))])

\* TelegramClient.send_document up to await self.bot.send_document;
\* _send_document passes no parse_mode, so the default "Markdown" applies.
ClientSendDocument(document, caption, chat_id) ==
    LET target == TargetChatId(chat_id) IN
    IF ~TruthyStr(target) THEN Raises(NoChatError)
    ELSE Invokes([NoReq EXCEPT !.op = "send_document", !.chat_id = target,
                               !.payload = document,
                               !.parse_mode =
                                   ParseModeEnum("Markdown", TruthyStr(caption))])

\* offset=self.last_update_id + 1 if self.last_update_id else None
NextOffset(cursor) == IF TruthyInt(cursor) THEN SomeInt(cursor.v + 1) ELSE NoInt

DefaultLimit == 10

\* TelegramClient.get_updates up to await self.bot.get_updates
ClientGetUpdates(offset, limit) ==
    Invokes([NoReq EXCEPT !.op = "get_updates", !.offset = offset,
                          !.limit = limit])

\* the methods that pass their arguments straight to the transport
ClientGetMe == Invokes([NoReq EXCEPT !.op = "get_me"])

ClientGetChat(chat_id) ==
    Invokes([NoReq EXCEPT !.op = "get_chat", !.chat_id = chat_id])

ClientGetChatMemberCount(chat_id) ==
    Invokes([NoReq EXCEPT !.op = "get_chat_member_count", !.chat_id = chat_id])

ClientSetWebhook(url) ==
    Invokes([NoReq EXCEPT !.op = "set_webhook", !.payload = url])

ClientDeleteWebhook == Invokes([NoReq EXCEPT !.op = "delete_webhook"])

ClientGetWebhookInfo == Invokes([NoReq EXCEPT !.op = "get_webhook_info"])

\* ------------------------------------------------------------- result shaping
\* _send_message / _send_photo / _send_document, the try branch
SendResult(extra) ==
    [NoResp EXCEPT !.form = "json",
                   !.keys = {"success", "message_id", "chat_id", extra},
                   !.success = "true"]

\* _get_updates: {"updates": [...], "count": n}; ids are the update_id of the
\* formatted updates, in order
UpdatesResult(batch) ==
    [NoResp EXCEPT !.form = "json", !.keys = {"updates", "count"},
                   !.ids = batch]

\* _get_bot_info: the info dict
BotInfoResult ==
    [NoResp EXCEPT !.form = "json",
                   !.keys = {"id", "is_bot", "first_name", "username",
                             "can_join_groups", "can_read_all_group_messages",
                             "supports_inline_queries"}]

ChatInfoKeys ==
    {"id", "type", "title", "username", "first_name", "last_name",
     "description"}

\* _get_chat_info: the info dict, with member_count when the second lookup
\* returned
ChatInfoResult(counted) ==
    [NoResp EXCEPT !.form = "json",
                   !.keys = IF counted THEN ChatInfoKeys \cup {"member_count"}
                            ELSE ChatInfoKeys]

\* mutant: the success flag says that the call completed, not what the
\* transport returned
SetWebhookCompleted(result) ==
    [NoResp EXCEPT !.form = "json",
                   !.keys = {"success", "webhook_url", "message"},
                   !.success = "true",
                   !.message = IF result THEN "Webhook set successfully"
                               ELSE "Failed to set webhook"]

\* _set_webhook: "success": result, "message": ... if result else ...
SetWebhookResult(result) ==
    [NoResp EXCEPT !.form = "json",
                   !.keys = {"success", "webhook_url", "message"},
                   !.success = PyBool(result),
                   !.message = IF result THEN "Webhook set successfully"
                               ELSE "Failed to set webhook"]

\* _delete_webhook
DeleteWebhookResult(result) ==
    [NoResp EXCEPT !.form = "json", !.keys = {"success", "message"},
                   !.success = PyBool(result),
                   !.message = IF result THEN "Webhook deleted successfully"
                               ELSE "Failed to delete webhook"]

\* _get_webhook_info: json.dumps of the dict TelegramClient.get_webhook_info
\* builds
WebhookInfoResult ==
    [NoResp EXCEPT !.form = "json",
                   !.keys = {"url", "has_custom_certificate",
                             "pending_update_count", "ip_address",
                             "last_error_date", "last_error_message",
                             "max_connections", "allowed_updates"}]

\* call_tool's else branch: f"Unknown tool: {name}"
UnknownToolResult == PlainText("Unknown tool")

\* call_tool's except branch: f"Error: {str(e)}"
CallToolError(e) == PlainText("Error")

\* mutant: a handler without its except branch; the exception reaches
\* call_tool's except branch
HandlerReraises(e) == CallToolError(e)

\* the except branch of every handler:
\* json.dumps({"success": False, "error": str(e)})
HandlerError(e) == ErrorEnvelope(e)

TransportError == "transport error"

\* ------------------------------------------------------------- cursor
\* mutant: an empty batch clears the cursor
AdvanceClearsOnEmpty(cursor, batch) ==
    IF batch = <<>> THEN NoInt ELSE SomeInt(batch[Len(batch)])

\* if updates: self.last_update_id = updates[-1].update_id
Advance(cursor, batch) ==
    IF batch = <<>> THEN cursor ELSE SomeInt(batch[Len(batch)])

\* mutant: the except branch of _get_updates forgets the cursor
CursorResetOnFailure(cursor) == NoInt

\* mutant: the except branch of _get_updates starts over from 0
CursorZeroOnFailure(cursor) == SomeInt(0)

\* the except branch of _get_updates assigns nothing
CursorAfterFailure(cursor) == cursor

\* What bot.get_updates may return: at most MaxBatch updates in ascending
\* order of update_id, none below the offset when one is given.
Batches(offset) ==
    {b \in UNION {[1..k -> IdRange] : k \in 0..MaxBatch} :
        /\ \A i \in 1..Len(b) : \A j \in 1..Len(b) : i < j => b[i] < b[j]
        /\ offset.some => \A i \in 1..Len(b) : b[i] >= offset.v}

\* ------------------------------------------------------------- session
\* call_tool: if not self.client: await self.initialize().  TelegramClient()
\* raises ValueError when no token is configured; initialize has no
\* suspension point.
SessionAfterEnsure == client \/ bot_token

\* mutant: initialize is called without the test of self.client
SessionsWithoutGuard(n) == IF bot_token /\ n < 2 THEN n + 1 ELSE n

\* the same lines, counting: initialize assigns a new TelegramClient only
\* when self.client is unset and the constructor returns
SessionsAfterEnsure(n) == IF ~client /\ bot_token THEN n + 1 ELSE n

\* mutant: the client is closed at the end of the try block, not in finally
ClosesOnNormalExit(how) == client /\ how = "exited"

\* run's finally: if self.client: await self.client.close()
ClosesOnExit(how) == client

\* ------------------------------------------------------------- call_tool
\* A fetch-updates call that is suspended at its pull.
Pulling(q) == call[q].pc = "await" /\ call[q].name = "telegram_get_updates"

\* call_tool from its entry to the first suspension of the handler it
\* dispatches to, or to its return when nothing suspends.  pre is what the
\* handler's client method does before its await.  serial: the protocol
\* layer hands over one call at a time.
Begin(p, name, a, pre, serial) ==
    /\ runState = "serving"
    /\ call[p].pc = "idle"
    /\ serial => \A q \in Slots : call[q].pc = "idle"
    /\ client' = SessionAfterEnsure
    /\ sessions' = SessionsAfterEnsure(sessions)
    /\ call' = [call EXCEPT ![p] =
         IF ~SessionAfterEnsure
         THEN [Idle EXCEPT !.pc = "done", !.name = name, !.args = a,
                           !.resp = CallToolError("Missing Telegram bot token.")]
         ELSE IF pre.raised # Absent
         THEN [Idle EXCEPT !.pc = "done", !.name = name, !.args = a,
                           !.resp = HandlerError(pre.raised)]
         ELSE [Idle EXCEPT !.pc = "await", !.name = name, !.args = a,
                           !.req = pre.req, !.n = 1,
                           !.peers = IF name = "telegram_get_updates"
                                     THEN {q \in Slots \ {p} : Pulling(q)}
                                     ELSE {}]]
    /\ UNCHANGED <<bot_token, default_chat_id, last_update_id, lastFetch,
                   runState, closeCount>>

SendMessage(p, serial) ==
    \E a \in SendMessageArgs :
        Begin(p, "telegram_send_message", a,
              ClientSendMessage(a.text, a.chat_id, ParseModeArg(a)), serial)

SendPhoto(p, serial) ==
    \E a \in SendPhotoArgs :
        Begin(p, "telegram_send_photo", a,
              ClientSendPhoto(a.photo_url, a.caption, a.chat_id, ParseModeArg(a)),
              serial)

SendDocument(p, serial) ==
    \E a \in SendDocumentArgs :
        Begin(p, "telegram_send_document", a,
              ClientSendDocument(a.document_url, a.caption, a.chat_id), serial)

GetUpdates(p, serial) ==
    \E a \in GetUpdatesArgs :
        Begin(p, "telegram_get_updates", a,
              ClientGetUpdates(NextOffset(last_update_id),
                               IF a.limit.some THEN a.limit
                               ELSE SomeInt(DefaultLimit)),
              serial)

GetBotInfo(p, serial) ==
    Begin(p, "telegram_get_bot_info", NoArgs, ClientGetMe, serial)

GetChatInfo(p, serial) ==
    \E a \in GetChatInfoArgs :
        Begin(p, "telegram_get_chat_info", a, ClientGetChat(a.chat_id), serial)

SetWebhook(p, serial) ==
    \E a \in SetWebhookArgs :
        Begin(p, "telegram_set_webhook", a, ClientSetWebhook(a.url), serial)

DeleteWebhook(p, serial) ==
    Begin(p, "telegram_delete_webhook", NoArgs, ClientDeleteWebhook, serial)

GetWebhookInfo(p, serial) ==
    Begin(p, "telegram_get_webhook_info", NoArgs, ClientGetWebhookInfo, serial)

\* a name outside the if/elif chain
UnknownTool(p, serial) ==
    /\ runState = "serving"
    /\ call[p].pc = "idle"
    /\ serial => \A q \in Slots : call[q].pc = "idle"
    /\ client' = SessionAfterEnsure
    /\ sessions' = SessionsAfterEnsure(sessions)
    /\ call' = [call EXCEPT ![p] =
         [Idle EXCEPT !.pc = "done", !.name = OtherName,
                      !.resp = IF ~SessionAfterEnsure
                               THEN CallToolError("Missing Telegram bot token.")
                               ELSE UnknownToolResult]]
    /\ UNCHANGED <<bot_token, default_chat_id, last_update_id, lastFetch,
                   runState, closeCount>>

\* ------------------------------------------------------------- handlers resumed
\* The handler in slot p returns resp; primary is how its transport
\* operation ended.
Finish(p, primary, resp) ==
    call' = [call EXCEPT ![p].pc = "done", ![p].primary = primary,
                         ![p].resp = resp]

SendExtra(name) ==
    IF name = "telegram_send_message" THEN "date" ELSE "has_caption"

\* bot.send_message / send_photo / send_document returns or raises
SendReturns(p) ==
    /\ call[p].pc = "await"
    /\ call[p].name \in {"telegram_send_message", "telegram_send_photo",
                         "telegram_send_document"}
    /\ \/ Finish(p, "ok", SendResult(SendExtra(call[p].name)))
       \/ Finish(p, "fail", HandlerError(TransportError))
    /\ UNCHANGED <<bot_token, default_chat_id, client, last_update_id,
                   lastFetch, runState, closeCount, sessions>>

\* bot.get_updates returns a batch or raises
UpdatesReturn(p) ==
    /\ Pulling(p)
    /\ \/ \E b \in Batches(call[p].req.offset) :
            /\ last_update_id' = Advance(last_update_id, b)
            /\ Finish(p, "ok", UpdatesResult(b))
            /\ lastFetch' = [res |-> "ok", offset |-> call[p].req.offset,
                             lastId |-> IF b = <<>> THEN NoInt
                                        ELSE SomeInt(b[Len(b)])]
       \/ /\ last_update_id' = CursorAfterFailure(last_update_id)
          /\ Finish(p, "fail", HandlerError(TransportError))
          /\ lastFetch' = [res |-> "fail", offset |-> call[p].req.offset,
                           lastId |-> NoInt]
    /\ UNCHANGED <<bot_token, default_chat_id, client, runState, closeCount, sessions>>

\* bot.get_me returns or raises
BotInfoReturns(p) ==
    /\ call[p].pc = "await"
    /\ call[p].name = "telegram_get_bot_info"
    /\ \/ Finish(p, "ok", BotInfoResult)
       \/ Finish(p, "fail", HandlerError(TransportError))
    /\ UNCHANGED <<bot_token, default_chat_id, client, last_update_id,
                   lastFetch, runState, closeCount, sessions>>

\* bot.get_chat returns, and the handler goes on to the member count, or
\* raises
ChatReturns(p) ==
    /\ call[p].pc = "await"
    /\ call[p].name = "telegram_get_chat_info"
    /\ \/ call' = [call EXCEPT
                     ![p].pc = "await2", ![p].primary = "ok",
                     ![p].req = ClientGetChatMemberCount(call[p].args.chat_id).req,
                     ![p].n = call[p].n + 1]
       \/ Finish(p, "fail", HandlerError(TransportError))
    /\ UNCHANGED <<bot_token, default_chat_id, client, last_update_id,
                   lastFetch, runState, closeCount, sessions>>

\* bot.get_chat_member_count returns or raises (try ... except: pass)
MemberCountReturns(p) ==
    /\ call[p].pc = "await2"
    /\ \E counted \in BOOLEAN :
         call' = [call EXCEPT ![p].pc = "done",
                              ![p].enrich = IF counted THEN "ok" ELSE "fail",
                              ![p].resp = ChatInfoResult(counted)]
    /\ UNCHANGED <<bot_token, default_chat_id, client, last_update_id,
                   lastFetch, runState, closeCount, sessions>>

\* bot.set_webhook returns a boolean or raises
SetWebhookReturns(p) ==
    /\ call[p].pc = "await"
    /\ call[p].name = "telegram_set_webhook"
    /\ \/ \E result \in BOOLEAN :
            call' = [call EXCEPT ![p].pc = "done", ![p].primary = "ok",
                                 ![p].ret = PyBool(result),
                                 ![p].resp = SetWebhookResult(result)]
       \/ Finish(p, "fail", HandlerError(TransportError))
    /\ UNCHANGED <<bot_token, default_chat_id, client, last_update_id,
                   lastFetch, runState, closeCount, sessions>>

\* bot.delete_webhook returns a boolean or raises
DeleteWebhookReturns(p) ==
    /\ call[p].pc = "await"
    /\ call[p].name = "telegram_delete_webhook"
    /\ \/ \E result \in BOOLEAN :
            call' = [call EXCEPT ![p].pc = "done", ![p].primary = "ok",
                                 ![p].ret = PyBool(result),
                                 ![p].resp = DeleteWebhookResult(result)]
       \/ Finish(p, "fail", HandlerError(TransportError))
    /\ UNCHANGED <<bot_token, default_chat_id, client, last_update_id,
                   lastFetch, runState, closeCount, sessions>>

\* bot.get_webhook_info returns or raises
WebhookInfoReturns(p) ==
    /\ call[p].pc = "await"
    /\ call[p].name = "telegram_get_webhook_info"
    /\ \/ Finish(p, "ok", WebhookInfoResult)
       \/ Finish(p, "fail", HandlerError(TransportError))
    /\ UNCHANGED <<bot_token, default_chat_id, client, last_update_id,
                   lastFetch, runState, closeCount, sessions>>

\* The protocol layer sends the response of slot p to the caller; the slot
\* is free again.
Deliver(p) ==
    /\ call[p].pc = "done"
    /\ call' = [q \in Slots |->
                  IF q = p THEN Idle
                  ELSE [call[q] EXCEPT !.peers = call[q].peers \ {p}]]
    /\ UNCHANGED <<bot_token, default_chat_id, client, last_update_id,
                   lastFetch, runState, closeCount, sessions>>

\* ------------------------------------------------------------- list_resources
ConfigStatusUri == "telegram://config/status"

BotInfoUri == "telegram://bot/info"

\* the list list_resources returns: the configuration status, and the bot
\* information when get_me returned
ResourcesResult(withBot) ==
    [NoResp EXCEPT !.form = "resources",
                   !.keys = IF withBot THEN {ConfigStatusUri, BotInfoUri}
                            ELSE {ConfigStatusUri}]

\* list_resources up to await self.client.get_me(), or to its return when
\* there is no client; it does not go through call_tool
ListResources(p, serial) ==
    /\ runState = "serving"
    /\ call[p].pc = "idle"
    /\ serial => \A q \in Slots : call[q].pc = "idle"
    /\ call' = [call EXCEPT ![p] =
         IF client
         THEN [Idle EXCEPT !.pc = "await", !.name = "list_resources",
                           !.req = ClientGetMe.req, !.n = 1]
         ELSE [Idle EXCEPT !.pc = "done", !.name = "list_resources",
                           !.resp = ResourcesResult(FALSE)]]
    /\ UNCHANGED <<bot_token, default_chat_id, client, last_update_id,
                   lastFetch, runState, closeCount, sessions>>

\* get_me returns or raises (try ... except: pass)
ResourcesReturn(p) ==
    /\ call[p].pc = "await"
    /\ call[p].name = "list_resources"
    /\ \E got \in BOOLEAN :
         call' = [call EXCEPT ![p].pc = "done",
                              ![p].enrich = IF got THEN "ok" ELSE "fail",
                              ![p].resp = ResourcesResult(got)]
    /\ UNCHANGED <<bot_token, default_chat_id, client, last_update_id,
                   lastFetch, runState, closeCount, sessions>>

\* ------------------------------------------------------------- run
\* TelegramMCPServer.run: self.server.run ends, normally ("exited") when
\* the input stream closes and no call is being served, or with an error
\* ("failed") that cancels the calls in flight; the except branch re-raises
\* and the finally branch closes the client.
RunEnds ==
    /\ runState = "serving"
    /\ \E how \in {"exited", "failed"} :
         /\ how = "exited" => \A q \in Slots : call[q].pc = "idle"
         /\ runState' = how
         /\ closeCount' = closeCount + (IF ClosesOnExit(how) THEN 1 ELSE 0)
    /\ call' = [q \in Slots |-> Idle]
    /\ UNCHANGED <<bot_token, default_chat_id, client, last_update_id,
                   lastFetch, sessions>>

\* ------------------------------------------------------------- specifications
Step(serial) ==
    \/ \E p \in Slots : SendMessage(p, serial)
    \/ \E p \in Slots : SendPhoto(p, serial)
    \/ \E p \in Slots : SendDocument(p, serial)
    \/ \E p \in Slots : GetUpdates(p, serial)
    \/ \E p \in Slots : GetBotInfo(p, serial)
    \/ \E p \in Slots : GetChatInfo(p, serial)
    \/ \E p \in Slots : SetWebhook(p, serial)
    \/ \E p \in Slots : DeleteWebhook(p, serial)
    \/ \E p \in Slots : GetWebhookInfo(p, serial)
    \/ \E p \in Slots : UnknownTool(p, serial)
    \/ \E p \in Slots : SendReturns(p)
    \/ \E p \in Slots : UpdatesReturn(p)
    \/ \E p \in Slots : BotInfoReturns(p)
    \/ \E p \in Slots : ChatReturns(p)
    \/ \E p \in Slots : MemberCountReturns(p)
    \/ \E p \in Slots : SetWebhookReturns(p)
    \/ \E p \in Slots : DeleteWebhookReturns(p)
    \/ \E p \in Slots : WebhookInfoReturns(p)
    \/ \E p \in Slots : ListResources(p, serial)
    \/ \E p \in Slots : ResourcesReturn(p)
    \/ \E p \in Slots : Deliver(p)
    \/ RunEnds

\* calls served one at a time
Next == Step(TRUE)

Spec == Init /\ [][Next]_vars

\* calls may overlap: a call may start while others are suspended
NextOverlap == Step(FALSE)

SpecOverlap == Init /\ [][NextOverlap]_vars

\* overlapping calls of the tools that take no arguments, of an unknown
\* name and of the resource listing: every path through the head of
\* call_tool, small enough for more calls in flight
NextSessions ==
    \/ \E p \in Slots : GetBotInfo(p, FALSE)
    \/ \E p \in Slots : DeleteWebhook(p, FALSE)
    \/ \E p \in Slots : GetWebhookInfo(p, FALSE)
    \/ \E p \in Slots : UnknownTool(p, FALSE)
    \/ \E p \in Slots : BotInfoReturns(p)
    \/ \E p \in Slots : DeleteWebhookReturns(p)
    \/ \E p \in Slots : WebhookInfoReturns(p)
    \/ \E p \in Slots : ListResources(p, FALSE)
    \/ \E p \in Slots : ResourcesReturn(p)
    \/ \E p \in Slots : Deliver(p)
    \/ RunEnds

SpecSessions == Init /\ [][NextSessions]_vars

\* ------------------------------------------------------------- TelegramNotifier
\* TelegramNotifier (notification.py) owns a TelegramClient built in its
\* constructor.  Its operations are recorded in the same slots as the
\* gateway's calls, under their own names.
NotifierNames ==
    {"notifier.send_message", "notifier.send_new_waitlist_entry",
     "notifier.send_updated_waitlist_entry"}

\* the f-string of send_new_waitlist_entry / send_updated_waitlist_entry
\* and the two optional lines appended to it
WaitlistMessage(header, name, email, comment, referral_source) ==
    header \o "\n\n*Name:* " \o name \o "\n*Email:* " \o email
        \o (IF TruthyStr(comment) THEN "\n*Comment:* " \o comment ELSE "")
        \o (IF TruthyStr(referral_source)
            THEN "\n*Referral Source:* " \o referral_source ELSE "")

\* what TelegramNotifier.send_message returns: True after the send, False
\* from its except branch; the waitlist operations return None
NotifierReturn(name, sent) ==
    IF name = "notifier.send_message" THEN PyBool(sent) ELSE "none"

\* TelegramNotifier.send_message(message, **kwargs) up to the await inside
\* TelegramClient.send_message; a holds the message and the keyword
\* arguments chat_id and parse_mode.
NotifierBegin(p, name, a) ==
    /\ \A q \in Slots : call[q].pc = "idle"
    /\ LET pre == ClientSendMessage(a.text, a.chat_id, ParseModeArg(a)) IN
       call' = [call EXCEPT ![p] =
         IF pre.raised # Absent
         THEN [Idle EXCEPT !.pc = "done", !.name = name, !.args = a,
                           !.ret = NotifierReturn(name, FALSE)]
         ELSE [Idle EXCEPT !.pc = "await", !.name = name, !.args = a,
                           !.req = pre.req, !.n = 1]]
    /\ UNCHANGED <<bot_token, default_chat_id, client, last_update_id,
                   lastFetch, runState, closeCount, sessions>>

NotifierSendMessage(p) ==
    \E a \in {b \in SendMessageArgs : b.text # Absent} :
        NotifierBegin(p, "notifier.send_message", a)

\* send_new_waitlist_entry: await self.send_message(message)
NotifierSendNewWaitlistEntry(p) ==
    \E comment \in {Absent, "hi"}, referral_source \in {Absent, "web"} :
        NotifierBegin(p, "notifier.send_new_waitlist_entry",
            [NoArgs EXCEPT !.text =
                WaitlistMessage("*New Waitlist Entry:*", "Ann", "ann@x.org",
                                comment, referral_source)])

\* send_updated_waitlist_entry: await self.send_message(message)
NotifierSendUpdatedWaitlistEntry(p) ==
    \E comment \in {Absent, "hi"}, referral_source \in {Absent, "web"} :
        NotifierBegin(p, "notifier.send_updated_waitlist_entry",
            [NoArgs EXCEPT !.text =
                WaitlistMessage("*Waitlist Entry Updated*", "Ann", "ann@x.org",
                                comment, referral_source)])

\* bot.send_message returns or raises; TelegramClient.send_message
\* re-raises and TelegramNotifier.send_message returns True or False
NotifierReturns(p) ==
    /\ call[p].pc = "await"
    /\ call[p].name \in NotifierNames
    /\ \E sent \in BOOLEAN :
         call' = [call EXCEPT ![p].pc = "done",
                              ![p].primary = IF sent THEN "ok" ELSE "fail",
                              ![p].ret = NotifierReturn(call[p].name, sent)]
    /\ UNCHANGED <<bot_token, default_chat_id, client, last_update_id,
                   lastFetch, runState, closeCount, sessions>>

\* the caller of the notifier has its result
NotifierDone(p) ==
    /\ call[p].pc = "done"
    /\ call[p].name \in NotifierNames
    /\ call' = [call EXCEPT ![p] = Idle]
    /\ UNCHANGED <<bot_token, default_chat_id, client, last_update_id,
                   lastFetch, runState, closeCount, sessions>>

\* TelegramNotifier.__init__: TelegramClient() has not raised, so a token is
\* configured and the client exists
InitNotifier ==
    /\ bot_token = TRUE
    /\ default_chat_id \in {Absent, EnvChat}
    /\ client = TRUE
    /\ last_update_id = NoInt
    /\ call = [p \in Slots |-> Idle]
    /\ lastFetch = NoFetch
    /\ runState = "serving"
    /\ closeCount = 0
    /\ sessions = 1

NextNotifier ==
    \/ \E p \in Slots : NotifierSendMessage(p)
    \/ \E p \in Slots : NotifierSendNewWaitlistEntry(p)
    \/ \E p \in Slots : NotifierSendUpdatedWaitlistEntry(p)
    \/ \E p \in Slots : NotifierReturns(p)
    \/ \E p \in Slots : NotifierDone(p)

SpecNotifier == InitNotifier /\ [][NextNotifier]_vars

\* ------------------------------------------------------------- properties
SendNames ==
    {"telegram_send_message", "telegram_send_photo", "telegram_send_document"}

\* the transport operation a send handler invokes
SendOp(name) ==
    CASE name = "telegram_send_message" -> "send_message"
      [] name = "telegram_send_photo" -> "send_photo"
      [] name = "telegram_send_document" -> "send_document"
      [] OTHER -> "none"

IdsOf(resp) == {resp.ids[i] : i \in 1..Len(resp.ids)}

\* C1: after a fetch-updates call whose pull returned a non-empty batch, the
\* next fetch-updates call passes the last identifier of that batch plus 1
\* as the offset, whatever integer that identifier is.
C1_NextOffsetIsLastIdPlusOne ==
    \A p \in Slots :
        (Pulling(p) /\ lastFetch.res = "ok" /\ lastFetch.lastId.some)
            => call[p].req.offset = SomeInt(lastFetch.lastId.v + 1)

\* C2: a fetch-updates call whose pull fails leaves last_update_id as it
\* was (neither its start nor its failing return changes it), and the
\* fetch-updates call that follows passes the offset the failed one passed.
C2_FailedPullKeepsCursor ==
    [][\A p \in Slots :
          /\ (call[p].pc = "idle" /\ call'[p].pc = "await"
                /\ call'[p].name = "telegram_get_updates")
                => /\ last_update_id' = last_update_id
                   /\ lastFetch.res = "fail"
                        => call'[p].req.offset = lastFetch.offset
          /\ (Pulling(p) /\ call'[p].pc = "done" /\ call'[p].primary = "fail")
                => last_update_id' = last_update_id]_vars

\* C2 witness: the cursor is set, a pull has failed, and the next
\* fetch-updates call is at its pull with the failed call's offset.
C2_Witness ==
    \E p \in Slots :
        /\ Pulling(p)
        /\ lastFetch.res = "fail"
        /\ last_update_id.some
        /\ call[p].req.offset.some
        /\ call[p].req.offset = lastFetch.offset

C3_WitnessNoDefault ==
    \E p \in Slots :
        /\ call[p].name \in SendNames
        /\ call[p].args.chat_id = Absent
        /\ default_chat_id = Absent
        /\ call[p].pc = "done"
        /\ call[p].resp.success = "false"

\* C4: a call with a name outside the catalog, served with a session at
\* hand, returns an envelope with success=false and an error message.
C4_UnknownActionEnvelope ==
    \A p \in Slots :
        (call[p].pc = "done" /\ call[p].name = OtherName /\ client)
            => /\ call[p].resp.form = "json"
               /\ call[p].resp.success = "false"
               /\ call[p].resp.error # Absent

\* parse_mode values the send actions declare: absent (the default),
\* "Markdown" and "HTML" in any case
Recognized(parse_mode) ==
    parse_mode = Absent \/ Upper(parse_mode) \in {"MARKDOWN", "HTML"}

\* C5: a send call whose parse_mode is not a recognized value invokes no
\* transport operation and returns success=false.
C5_BogusParseModeRejected ==
    \A p \in Slots :
        (call[p].name \in {"telegram_send_message", "telegram_send_photo"}
            /\ ~Recognized(call[p].args.parse_mode))
            => /\ call[p].n = 0
               /\ (call[p].pc = "done" /\ client)
                    => call[p].resp.success = "false"

\* the field each action's inputSchema lists under "required"
RequiredMissing(name, a) ==
    \/ name = "telegram_send_message" /\ a.text = Absent
    \/ name = "telegram_send_photo" /\ a.photo_url = Absent
    \/ name = "telegram_send_document" /\ a.document_url = Absent
    \/ name = "telegram_get_chat_info" /\ a.chat_id = Absent
    \/ name = "telegram_set_webhook" /\ a.url = Absent

\* C6: a call that omits a required field invokes no transport operation
\* and returns success=false.
C6_MissingRequiredRejected ==
    \A p \in Slots :
        RequiredMissing(call[p].name, call[p].args)
            => /\ call[p].n = 0
               /\ (call[p].pc = "done" /\ client)
                    => call[p].resp.success = "false"

\* C7: a call whose primary transport operation failed has returned the
\* envelope {success: false, error: message} after that one attempt, and
\* the gateway is still serving.
C7_TransportFailureEnvelope ==
    \A p \in Slots :
        call[p].primary = "fail"
            => /\ call[p].pc = "done"
               /\ call[p].resp = ErrorEnvelope(TransportError)
               /\ call[p].n = 1
               /\ runState = "serving"

\* C7 witness: get-webhook-info has returned the error envelope.
C7_Witness ==
    \E p \in Slots :
        /\ call[p].name = "telegram_get_webhook_info"
        /\ call[p].primary = "fail"
        /\ call[p].resp.success = "false"

\* C8: the client is not closed while run is serving, and once run has
\* ended, normally or with an error, a client that was created has been
\* closed exactly once.
C8_SessionClosedOnceAtExit ==
    /\ runState = "serving" => closeCount = 0
    /\ (runState # "serving" /\ client) => closeCount = 1
    /\ (runState # "serving" /\ ~client) => closeCount = 0

\* C8 witness: run ended with an error and the client created while
\* serving has been closed.
C8_Witness == runState = "failed" /\ client /\ closeCount = 1

\* C9: two fetch-updates calls of which one started while the other was
\* suspended at its pull return no update identifier in common.
C9_NoUpdateDeliveredTwice ==
    \A p \in Slots : \A q \in call[p].peers :
        (call[p].pc = "done" /\ call[q].pc = "done"
            /\ call[p].name = "telegram_get_updates"
            /\ call[q].name = "telegram_get_updates")
            => IdsOf(call[p].resp) \cap IdsOf(call[q].resp) = {}

\* C10: get-chat-info whose chat lookup succeeded and whose member-count
\* lookup failed returns success=true with all primary fields, without
\* member_count and without the error.
C10_PartialChatInfo ==
    \A p \in Slots :
        (call[p].pc = "done" /\ call[p].name = "telegram_get_chat_info"
            /\ call[p].primary = "ok" /\ call[p].enrich = "fail")
            => /\ call[p].resp.success = "true"
               /\ ChatInfoKeys \subseteq call[p].resp.keys
               /\ "member_count" \notin call[p].resp.keys
               /\ "error" \notin call[p].resp.keys
               /\ call[p].resp.error = Absent


\* C11: a fetch-updates call whose pull returns an empty batch returns
\* {"updates": [], "count": 0} and leaves last_update_id as it was, set or
\* unset.
C11_EmptyBatchKeepsCursor ==
    [][\A p \in Slots :
          (Pulling(p) /\ call'[p].pc = "done" /\ call'[p].primary = "ok"
              /\ call'[p].resp.ids = <<>>)
              => /\ last_update_id' = last_update_id
                 /\ call'[p].resp.form = "json"
                 /\ call'[p].resp.keys = {"updates", "count"}
                 /\ Len(call'[p].resp.ids) = 0]_vars

\* C11 witness: with the cursor set, a pull has returned an empty batch
\* and the call has returned.
C11_Witness ==
    \E p \in Slots :
        /\ call[p].pc = "done"
        /\ call[p].name = "telegram_get_updates"
        /\ call[p].primary = "ok"
        /\ call[p].resp.ids = <<>>
        /\ last_update_id.some

\* C12: every response of the nine actions, served with a session at hand,
\* carries a success flag: true with the payload when the transport
\* operation succeeded, false with an error string otherwise.
C12_EveryResponseHasSuccessFlag ==
    \A p \in Slots :
        (call[p].pc = "done" /\ call[p].name \in ToolNames /\ client)
            => /\ call[p].resp.success # "none"
               /\ call[p].resp.success = "false" => call[p].resp.error # Absent

\* C13: a call during which session initialization failed does not end as
\* an ordinary response of a gateway that goes on serving.
C13_InitFailureIsFatal ==
    \A p \in Slots :
        (call[p].pc = "done" /\ ~client /\ call[p].name \in ToolNames)
            => runState # "serving"


\* C14: set-webhook and clear-webhook whose transport operation returned
\* the boolean b answer with success = b, with the success text exactly
\* when b is true and the failure text exactly when b is false.
C14_WebhookResultFollowsTransport ==
    \A p \in Slots :
        (call[p].pc = "done" /\ call[p].primary = "ok"
            /\ call[p].name \in {"telegram_set_webhook",
                                 "telegram_delete_webhook"})
            => LET okText == IF call[p].name = "telegram_set_webhook"
                             THEN "Webhook set successfully"
                             ELSE "Webhook deleted successfully"
                   failText == IF call[p].name = "telegram_set_webhook"
                               THEN "Failed to set webhook"
                               ELSE "Failed to delete webhook"
               IN /\ call[p].ret \in {"true", "false"}
                  /\ call[p].resp.success = call[p].ret
                  /\ call[p].resp.message = okText <=> call[p].ret = "true"
                  /\ call[p].resp.message = failText <=> call[p].ret = "false"

\* C14 witness: bot.set_webhook returned False and the call has answered.
C14_Witness ==
    \E p \in Slots :
        /\ call[p].pc = "done"
        /\ call[p].name = "telegram_set_webhook"
        /\ call[p].ret = "false"
        /\ call[p].resp.success = "false"


\* C15 as stated: every notifier send operation that has returned has made
\* exactly one send-text call, to the default chat, with the message text
\* and the Markdown parse mode.
C15_NotifierAlwaysSendsOnce ==
    \A p \in Slots :
        (call[p].pc = "done" /\ call[p].name \in NotifierNames)
            => /\ call[p].n = 1
               /\ call[p].req.op = "send_message"
               /\ call[p].req.chat_id = default_chat_id
               /\ call[p].req.payload = call[p].args.text
               /\ call[p].req.parse_mode = "ParseMode.MARKDOWN"

\* C15 amended: a notifier send operation given no chat_id and no
\* parse_mode keyword makes, when a default chat is configured, exactly one
\* send-text call, to that chat, with the message text and the Markdown
\* parse mode; when none is configured it makes no call and send_message
\* returns False.
C15_NotifierSendsOnceToDefault ==
    \A p \in Slots :
        (call[p].pc \in {"await", "done"} /\ call[p].name \in NotifierNames
            /\ call[p].args.chat_id = Absent
            /\ call[p].args.parse_mode = Absent)
            => IF default_chat_id # Absent
               THEN /\ call[p].n = 1
                    /\ call[p].req.op = "send_message"
                    /\ call[p].req.chat_id = default_chat_id
                    /\ call[p].req.payload = call[p].args.text
                    /\ call[p].req.parse_mode = "ParseMode.MARKDOWN"
               ELSE /\ call[p].n = 0
                    /\ call[p].pc = "done"
                    /\ call[p].name = "notifier.send_message"
                         => call[p].ret = "false"

\* C15 witness: send_new_waitlist_entry with a comment has sent its one
\* message to the default chat.
C15_Witness ==
    \E p \in Slots :
        /\ call[p].pc = "done"
        /\ call[p].name = "notifier.send_new_waitlist_entry"
        /\ call[p].primary = "ok"
        /\ call[p].n = 1
        /\ call[p].req.chat_id = EnvChat
        /\ call[p].req.payload =
             "*New Waitlist Entry:*\n\n*Name:* Ann\n*Email:* ann@x.org\n*Comment:* hi"


\* C16: with calls served one at a time and batches in ascending order at
\* or above the requested offset, last_update_id, once set, is never unset
\* and never decreases.
C16_CursorNeverDecreases ==
    [][last_update_id.some
          => /\ last_update_id'.some
             /\ last_update_id'.v >= last_update_id.v]_vars

\* C17: last_update_id changes only in the step in which a fetch-updates
\* call resumes from a pull that returned a non-empty batch; every other
\* step of every call, the resource listing included, leaves it unchanged.
C17_OnlyFetchMovesCursor ==
    [][last_update_id' # last_update_id
          => \E p \in Slots :
                /\ Pulling(p)
                /\ call'[p].pc = "done"
                /\ call'[p].primary = "ok"
                /\ call'[p].resp.ids # <<>>
                /\ last_update_id' =
                     SomeInt(call'[p].resp.ids[Len(call'[p].resp.ids)])]_vars

\* C17 witness: a pull returned a non-empty batch and the cursor is its
\* last identifier.
C17_Witness ==
    \E p \in Slots :
        /\ call[p].pc = "done"
        /\ call[p].name = "telegram_get_updates"
        /\ call[p].resp.ids # <<>>
        /\ last_update_id = SomeInt(call[p].resp.ids[Len(call[p].resp.ids)])

\* C18: a fetch-updates call whose limit is below 1 or above 100 invokes no
\* transport operation and returns success=false.
C18_LimitOutOfRangeRejected ==
    \A p \in Slots :
        (call[p].name = "telegram_get_updates" /\ call[p].args.limit.some
            /\ (call[p].args.limit.v < 1 \/ call[p].args.limit.v > 100))
            => /\ call[p].n = 0
               /\ (call[p].pc = "done" /\ client)
                    => call[p].resp.success = "false"

\* C19: a call with an unknown name made while no session exists returns
\* the unknown-action response and leaves the session absent, whether or
\* not a session could have been created.
C19_UnknownNameBeforeSession ==
    [][\A p \in Slots :
          (call[p].pc = "idle" /\ call'[p].name = OtherName /\ ~client)
              => /\ client' = client
                 /\ call'[p].resp = UnknownToolResult]_vars

\* C20: the control flow of list_resources never creates a session and
\* invokes get_me only when one exists; the list it builds holds the
\* configuration status, and the bot information exactly when get_me
\* returned. Whether the protocol library accepts the documents as they are
\* constructed (lines 274-285) is outside this model.
C20_ListingAlwaysSucceeds ==
    [][\A p \in Slots :
          (call'[p].name = "list_resources" /\ call'[p] # call[p])
              => /\ client' = client
                 /\ call'[p].n > 0 => client
                 /\ call[p].pc = "idle"
                      => call'[p].pc = (IF client THEN "await" ELSE "done")
                 /\ call'[p].pc = "done"
                      => /\ call'[p].resp.form = "resources"
                         /\ ConfigStatusUri \in call'[p].resp.keys
                         /\ BotInfoUri \in call'[p].resp.keys
                              <=> (call'[p].enrich = "ok" /\ client)]_vars

\* C20 reachable case: with a session at hand get_me failed and the listing
\* returned the configuration status alone.
C20_Witness ==
    \E p \in Slots :
        /\ call[p].pc = "done"
        /\ call[p].name = "list_resources"
        /\ call[p].enrich = "fail"
        /\ call[p].resp.keys = {ConfigStatusUri}


\* C21: over every interleaving of calls, overlapping first calls included,
\* at most one session is ever created; once self.client is set every step
\* keeps it and creates no other; a call that starts with no session either
\* creates it (token configured) or leaves it absent and returns the
\* initialization error, so that the next call tries again.
C21_AtMostOneSession ==
    [][/\ sessions' <= 1
       /\ client' <=> sessions' = 1
       /\ client => (client' /\ sessions' = sessions)
       /\ \A p \in Slots :
             (/\ ~client
              /\ call[p].pc = "idle"
              /\ call'[p].name \in ToolNames \cup {OtherName})
                 => IF bot_token
                    THEN client' /\ sessions' = 1
                    ELSE /\ ~client'
                         /\ sessions' = 0
                         /\ call'[p].pc = "done"
                         /\ call'[p].resp =
                              CallToolError("Missing Telegram bot token.")]_vars

\* C21 witness: two calls overlap, both suspended at their transport
\* operation, and one session has been created.
C21_Witness ==
    \E p \in Slots : \E q \in Slots \ {p} :
        /\ call[p].pc = "await"
        /\ call[q].pc = "await"
        /\ call[p].name \in ToolNames
        /\ call[q].name \in ToolNames
        /\ client
        /\ sessions = 1

=============================================================================
